---------------------------- MODULE Spec2Model ----------------------------
(***************************************************************************)
(* A model of the camera classes of arcade/camera.py: BaseCamera, Camera   *)
(* and AdvanceCamera, with the window and GL context they publish to.      *)
(*                                                                         *)
(* Numbers.  Python floats are modelled as a small binary floating-point   *)
(* format: a value is an integer number of ticks of 1/Scale, and only      *)
(* values whose magnitude has at most Precision significant bits are       *)
(* representable.  Every arithmetic operation rounds its exact result to   *)
(* the nearest representable value, ties to the even significand, as       *)
(* IEEE-754 does.  Rounding is kept because the code ends a movement with  *)
(* an exact comparison of floats (position == goal_position).              *)
(*                                                                         *)
(* Matrices.  A Mat4 is a tuple of 16 floats with a translation in         *)
(* elements 13..15 (pyglet's from_translation).  a @ b composes left to    *)
(* right: the product applied to a point applies a first.  This is the     *)
(* reading under which projection @ view subtracts the camera position in  *)
(* normalized device units, as _set_view_matrix computes it.               *)
(***************************************************************************)
EXTENDS Integers, Sequences, FiniteSets, TLC

\* ------------------------------------------------------------------ bounds

\* Significant bits of the modelled float format.
Precision == 5
\* Fractional bits: one tick is 1/2^FracBits.
FracBits == 2
\* The largest binary exponent a value may take above the lowest binade.
MaxExp == 8

Scale == 2 ^ FracBits

\* ------------------------------------------------------------- float model

Abs(n) == IF n < 0 THEN -n ELSE n

Sgn(n) == IF n < 0 THEN -1 ELSE 1

Min(a, b) == IF a <= b THEN a ELSE b

\* a/d (a >= 0, d > 0) rounded to the nearest integer, ties to even.
RoundHalfEven(a, d) ==
    LET q == a \div d
        r == a % d
    IN  IF 2 * r < d THEN q
        ELSE IF 2 * r > d THEN q + 1
        ELSE IF q % 2 = 0 THEN q ELSE q + 1

\* The exponent at which a/d has at most Precision significant bits.
Exponent(a, d) ==
    IF a < (2 ^ Precision) * d THEN 0
    ELSE CHOOSE e \in 1..MaxExp :
            /\ a < (2 ^ (Precision + e)) * d
            /\ a >= (2 ^ (Precision + e - 1)) * d

\* The representable value nearest to the rational n/d (d # 0), in ticks.
FRound(n, d) ==
    LET a == Abs(n)
        b == Abs(d)
        e == Exponent(a, b)
    IN  IF b = 1 /\ a < 2 ^ Precision
        THEN Sgn(d) * n
        ELSE Sgn(n) * Sgn(d) * RoundHalfEven(a, b * (2 ^ e)) * (2 ^ e)

\* The float nearest to the rational n/d given in units (not ticks).
F(n, d) == FRound(n * Scale, d)

\* x + y, x - y, x * y and x / y of floats x and y.  A sum with 0 and a
\* product with 0 or 1 are exact, and are not rounded.
FAdd(x, y) == IF x = 0 THEN y ELSE IF y = 0 THEN x ELSE FRound(x + y, 1)

FSub(x, y) == IF y = 0 THEN x ELSE FRound(x - y, 1)

FMul(x, y) ==
    IF x = 0 \/ y = 0 THEN 0
    ELSE IF y = Scale THEN x
    ELSE IF x = Scale THEN y
    ELSE FRound(x * y, Scale)

FDiv(x, y) == FRound(x * Scale, y)

One == F(1, 1)

Two == F(2, 1)

\* int(x): x truncated towards zero.
int(x) == Sgn(x) * ((Abs(x) \div Scale) * Scale)

\* The integer nearest to the square root of n >= 0.
ISqrt(n) ==
    LET f == CHOOSE k \in 0..n : k * k <= n /\ (k + 1) * (k + 1) > n
    IN  IF n - f * f > f THEN f + 1 ELSE f

\* math.hypot(x, y) on floats.
Hypot(x, y) == FRound(ISqrt(x * x + y * y), 1)


\* ---------------------------------------------------------------- vectors

\* Python's None, for an argument or attribute that is not set.
None == <<>>

Vec2(x, y) == <<x, y>>

Vec3(x, y, z) == <<x, y, z>>

\* Vec2.__add__
VecAdd(a, b) == <<FAdd(a[1], b[1]), FAdd(a[2], b[2])>>

\* Vec2.__sub__
VecSub(a, b) == <<FSub(a[1], b[1]), FSub(a[2], b[2])>>

\* Vec2.__mul__ by a Vec2: component-wise.
VecMul(a, b) == <<FMul(a[1], b[1]), FMul(a[2], b[2])>>

\* pyglet's lerp of one component: a + alpha * (b - a), each operation rounded.
lerp1(a, b, alpha) == FAdd(a, FMul(alpha, FSub(b, a)))

\* Vec2.lerp(other, alpha)
lerp(a, b, alpha) == <<lerp1(a[1], b[1], alpha), lerp1(a[2], b[2], alpha)>>

\* --------------------------------------------------------------- matrices

\* Mat4(): the identity.
Mat4 == <<One, 0, 0, 0,  0, One, 0, 0,  0, 0, One, 0,  0, 0, 0, One>>

\* Mat4.from_translation(vector)
from_translation(v) ==
    <<One, 0, 0, 0,  0, One, 0, 0,  0, 0, One, 0,  v[1], v[2], v[3], One>>

\* Mat4().scale(vector)
scale(v) ==
    <<v[1], 0, 0, 0,  0, v[2], 0, 0,  0, 0, v[3], 0,  0, 0, 0, One>>

\* Mat4.orthogonal_projection(left, right, bottom, top, z_near, z_far)
orthogonal_projection(left, right, bottom, top, z_near, z_far) ==
    LET width  == FSub(right, left)
        height == FSub(top, bottom)
        depth  == FSub(z_far, z_near)
        sx == FDiv(Two, width)
        sy == FDiv(Two, height)
        sz == FDiv(Two, -depth)
        tx == FDiv(-FAdd(right, left), width)
        ty == FDiv(-FAdd(top, bottom), height)
        tz == FDiv(-FAdd(z_far, z_near), depth)
    IN  <<sx, 0, 0, 0,  0, sy, 0, 0,  0, 0, sz, 0,  tx, ty, tz, One>>

\* Rotations are quarter turns: cos and sin of math.radians(90 * q).
Cos(q) == CASE q % 4 = 0 -> One [] q % 4 = 2 -> -One [] OTHER -> 0

Sin(q) == CASE q % 4 = 1 -> One [] q % 4 = 3 -> -One [] OTHER -> 0

\* Mat4.from_rotation(math.radians(rotation), Vec3(0, 0, 1))
from_rotation(q) ==
    <<Cos(q), Sin(q), 0, 0,  -Sin(q), Cos(q), 0, 0,  0, 0, One, 0,  0, 0, 0, One>>

\* One element of a @ b: the sum, left to right, of the four products.
Dot4(a, b, i, j) ==
    FAdd(FAdd(FAdd(FMul(a[4 * (i - 1) + 1], b[j]),
                   FMul(a[4 * (i - 1) + 2], b[4 + j])),
              FMul(a[4 * (i - 1) + 3], b[8 + j])),
         FMul(a[4 * (i - 1) + 4], b[12 + j]))

\* Mat4.__matmul__: a @ b, which applies a first.
MatMul(a, b) ==
    [n \in 1..16 |-> Dot4(a, b, ((n - 1) \div 4) + 1, ((n - 1) % 4) + 1)]

\* Mat4.__invert__ (~m) for a matrix made of a scale and a translation,
\* the only kind the cameras invert.
Invert(m) ==
    <<FDiv(One, m[1]), 0, 0, 0,
      0, FDiv(One, m[6]), 0, 0,
      0, 0, FDiv(One, m[11]), 0,
      FDiv(-m[13], m[1]), FDiv(-m[14], m[6]), FDiv(-m[15], m[11]), One>>

\* The point (x, y, 0, 1) carried through the matrix m.
Transform(m, p) ==
    <<FAdd(FAdd(FMul(p[1], m[1]), FMul(p[2], m[5])), m[13]),
      FAdd(FAdd(FMul(p[1], m[2]), FMul(p[2], m[6])), m[14])>>

\* ------------------------------------------------------------------ state

VARIABLES
    cameras,   \* the camera objects constructed so far, each a record of its attributes
    window,    \* the window: current_camera and the GL context (ctx) attributes
    last,      \* the method that returned last, and its arguments (for use(), the camera)
    calls      \* how many calls other than update() and use() were made

vars == <<cameras, window, last, calls>>

\* At most this many calls other than update() and use() in one behaviour.
MaxCalls == 2

\* window.width, window.height
WindowWidth == F(4, 1)

WindowHeight == F(2, 1)

DefaultViewport == <<0, 0, WindowWidth, WindowHeight>>

DefaultProjection == <<0, WindowWidth, 0, WindowHeight>>

\* ------------------------------------------------------------- BaseCamera

\* BaseCamera._set_combined_matrix
Base_set_combined_matrix(self) ==
    [self EXCEPT !.combined_matrix = MatMul(self.projection_matrix, self.view_matrix)]

\* BaseCamera._set_projection_matrix
Base_set_projection_matrix(self, update_combined_matrix) ==
    LET p  == self.projection
        s1 == [self EXCEPT !.projection_matrix =
                   orthogonal_projection(p[1], p[2], p[3], p[4], -One, One)]
    IN  IF update_combined_matrix THEN Base_set_combined_matrix(s1) ELSE s1

\* BaseCamera._set_view_matrix
Base_set_view_matrix(self) ==
    LET result_position ==
            Vec3(FDiv(self.position[1], FDiv(self.viewport[3], Two)),
                 FDiv(self.position[2], FDiv(self.viewport[4], Two)),
                 0)
    IN  Base_set_combined_matrix(
            [self EXCEPT !.view_matrix = Invert(from_translation(result_position))])

\* BaseCamera.__init__
Base_init(viewport, projection) ==
    Base_set_view_matrix(Base_set_projection_matrix(
        [cls               |-> "BaseCamera",
         viewport          |-> IF viewport = None THEN DefaultViewport ELSE viewport,
         projection        |-> IF projection = None THEN DefaultProjection ELSE projection,
         projection_matrix |-> Mat4,
         view_matrix       |-> Mat4,
         combined_matrix   |-> Mat4,
         position          |-> Vec2(0, 0),
         goal_position     |-> Vec2(0, 0),
         move_speed        |-> One,
         moving            |-> FALSE],
        FALSE))

\* BaseCamera.viewport (setter)
Base_viewport(self, viewport) == [self EXCEPT !.viewport = viewport]

\* BaseCamera.projection (setter)
Base_projection(self, new_projection) ==
    Base_set_projection_matrix([self EXCEPT !.projection = new_projection], TRUE)

\* BaseCamera.move_to
Base_move_to(self, vector, speed) ==
    [self EXCEPT !.goal_position = Vec2(vector[1], vector[2]),
                 !.move_speed = speed,
                 !.moving = TRUE]

\* BaseCamera.move
Base_move(self, vector) == Base_move_to(self, vector, One)

\* BaseCamera.update
Base_update(self) ==
    IF self.moving
    THEN LET position == lerp(self.position, self.goal_position, self.move_speed)
             s1 == [self EXCEPT !.position = position,
                                !.moving = IF position = self.goal_position
                                           THEN FALSE ELSE self.moving]
         IN  Base_set_view_matrix(s1)
    ELSE self

\* BaseCamera.use: the camera after the call.
Base_use(self) == Base_update(self)

\* BaseCamera.use: the window after the call by camera c, now in state self.
Base_use_window(c, self) ==
    [window EXCEPT !.current_camera = c,
                   !.viewport = self.viewport,
                   !.projection_2d_matrix = self.combined_matrix]

\* ----------------------------------------------------------------- Camera

\* sin(atan2(x, y) + pi) and cos(atan2(x, y) + pi) for an offset (x, y) at
\* the given distance from the origin: -x/distance and -y/distance.
\* atan2(0, 0) is 0, whose opposite has sine 0 and cosine -1.
SinOpposite(x, y, distance) == IF distance = 0 THEN 0 ELSE FDiv(-x, distance)

CosOpposite(x, y, distance) == IF distance = 0 THEN -One ELSE FDiv(-y, distance)

\* Camera.set_projection
Cam_set_projection(self) ==
    [self EXCEPT !.projection_matrix =
        orthogonal_projection(0, FMul(self.scale, self.viewport_width),
                              0, FMul(self.scale, self.viewport_height),
                              self.near, self.far)]

\* Camera.__init__
Cam_init(viewport_width, viewport_height) ==
    Cam_set_projection(
        [cls               |-> "Camera",
         position          |-> Vec2(0, 0),
         goal_position     |-> Vec2(0, 0),
         rotation          |-> 0,
         anchor            |-> None,
         move_speed        |-> One,
         projection_matrix |-> None,
         view_matrix       |-> None,
         combined_matrix   |-> None,
         near              |-> -One,
         far               |-> One,
         shake_velocity    |-> Vec2(0, 0),
         shake_offset      |-> Vec2(0, 0),
         shake_speed       |-> 0,
         shake_damping     |-> 0,
         scale             |-> One,
         viewport_width    |-> IF viewport_width = 0 THEN WindowWidth ELSE viewport_width,
         viewport_height   |-> IF viewport_height = 0 THEN WindowHeight ELSE viewport_height])

\* Camera.rotation (setter)
Cam_rotation(self, value) == [self EXCEPT !.rotation = value]

\* Camera.anchor (setter)
Cam_anchor(self, anchor) ==
    [self EXCEPT !.anchor = IF anchor = None THEN None ELSE <<anchor[1], anchor[2]>>]

\* Camera.update
Cam_update(self) ==
    LET position == lerp(self.position, self.goal_position, self.move_speed)
        offset1  == VecAdd(self.shake_offset, self.shake_velocity)
        vx == self.shake_velocity[1]
        vy == self.shake_velocity[2]
        ox == offset1[1]
        oy == offset1[2]
        distance == Hypot(ox, oy)
        velocity_mag == Hypot(vx, vy)
        reverse_speed == Min(self.shake_speed, distance)
        opposite_vector == Vec2(FMul(SinOpposite(ox, oy, distance), reverse_speed),
                                FMul(CosOpposite(ox, oy, distance), reverse_speed))
        done == velocity_mag < self.shake_speed /\ distance < self.shake_speed
        velocity1 == IF done THEN Vec2(0, 0) ELSE self.shake_velocity
        offset2   == IF done THEN Vec2(0, 0) ELSE offset1
        velocity2 == VecMul(VecAdd(velocity1, opposite_vector),
                            Vec2(self.shake_damping, self.shake_damping))
        rp == VecAdd(position, offset2)
        result_position ==
            Vec3(FDiv(rp[1], FDiv(FMul(self.viewport_width, self.scale), Two)),
                 FDiv(rp[2], FDiv(FMul(self.viewport_height, self.scale), Two)),
                 0)
        view_matrix == Invert(MatMul(from_translation(result_position),
                                     scale(Vec3(self.scale, self.scale, One))))
    IN  [self EXCEPT !.position = position,
                     !.shake_offset = offset2,
                     !.shake_velocity = velocity2,
                     !.view_matrix = view_matrix,
                     !.combined_matrix = MatMul(self.projection_matrix, view_matrix)]

\* Camera.resize
Cam_resize(self, viewport_width, viewport_height) ==
    Cam_set_projection([self EXCEPT !.viewport_width = viewport_width,
                                    !.viewport_height = viewport_height])

\* Camera.shake
Cam_shake(self, velocity, speed, damping) ==
    [self EXCEPT !.shake_velocity = VecAdd(self.shake_velocity, velocity),
                 !.shake_speed = speed,
                 !.shake_damping = damping]

\* Camera.move_to
Cam_move_to(self, vector, speed) ==
    [self EXCEPT !.goal_position = Vec2(vector[1], vector[2]),
                 !.move_speed = speed]

\* Camera.move
Cam_move(self, vector) == Cam_move_to(self, vector, One)

\* Camera.use: the camera after the call.
Cam_use(self) == Cam_update(self)

\* Camera.use: the rotation it publishes as ctx.view_matrix_2d.
Cam_use_view_matrix_2d(self) ==
    LET rotate == from_rotation(self.rotation)
        offset == IF self.anchor = None
                  THEN Vec3(FAdd(self.position[1], FDiv(self.viewport_width, Two)),
                            FAdd(self.position[2], FDiv(self.viewport_height, Two)),
                            0)
                  ELSE Vec3(self.anchor[1], self.anchor[2], 0)
        translate_pre  == from_translation(offset)
        translate_post == from_translation(Vec3(-offset[1], -offset[2], -offset[3]))
    IN  MatMul(MatMul(translate_post, rotate), translate_pre)

\* Camera.use: the window after the call by camera c, now in state self.
Cam_use_window(c, self) ==
    [window EXCEPT !.current_camera = c,
                   !.viewport = <<0, 0, int(self.viewport_width), int(self.viewport_height)>>,
                   !.projection_2d_matrix = self.combined_matrix,
                   !.view_matrix_2d = Cam_use_view_matrix_2d(self)]

\* ---------------------------------------------------------- AdvanceCamera

\* AdvanceCamera._set_combined_matrix
Adv_set_combined_matrix(self) ==
    [self EXCEPT !.combined_matrix = MatMul(self.projection_matrix, self.view_matrix)]

\* AdvanceCamera._set_projection_matrix
Adv_set_projection_matrix(self, update_combined_matrix) ==
    LET left   == self.projection[1]
        right  == IF self.zoom # One THEN FMul(self.projection[2], self.zoom)
                                     ELSE self.projection[2]
        bottom == self.projection[3]
        top    == IF self.zoom # One THEN FMul(self.projection[4], self.zoom)
                                     ELSE self.projection[4]
        s1 == [self EXCEPT !.projection_matrix =
                   orthogonal_projection(left, right, bottom, top, self.near, self.far)]
    IN  IF update_combined_matrix THEN Adv_set_combined_matrix(s1) ELSE s1

\* AdvanceCamera._set_view_matrix
Adv_set_view_matrix(self) ==
    LET rp == VecAdd(self.position, self.shake_offset)
        result_position ==
            Vec3(FDiv(rp[1], FDiv(FMul(self.viewport[3], self.zoom), Two)),
                 FDiv(rp[2], FDiv(FMul(self.viewport[4], self.zoom), Two)),
                 0)
    IN  Adv_set_combined_matrix(
            [self EXCEPT !.view_matrix =
                Invert(MatMul(from_translation(result_position),
                              scale(Vec3(self.zoom, self.zoom, One))))])

\* _set_rotation_matrix with the two translations exchanged.
Adv_set_rotation_matrix_exchanged(self) ==
    LET rotate == from_rotation(self.rotation)
        offset == IF self.anchor = None
                  THEN Vec3(FAdd(self.position[1], FDiv(self.viewport[3], Two)),
                            FAdd(self.position[2], FDiv(self.viewport[4], Two)),
                            0)
                  ELSE Vec3(self.anchor[1], self.anchor[2], 0)
        translate_pre  == from_translation(offset)
        translate_post == from_translation(Vec3(-offset[1], -offset[2], -offset[3]))
    IN  [self EXCEPT !.rotation_matrix =
            MatMul(MatMul(translate_pre, rotate), translate_post)]

\* AdvanceCamera._set_rotation_matrix
Adv_set_rotation_matrix(self) ==
    LET rotate == from_rotation(self.rotation)
        offset == IF self.anchor = None
                  THEN Vec3(FAdd(self.position[1], FDiv(self.viewport[3], Two)),
                            FAdd(self.position[2], FDiv(self.viewport[4], Two)),
                            0)
                  ELSE Vec3(self.anchor[1], self.anchor[2], 0)
        translate_pre  == from_translation(offset)
        translate_post == from_translation(Vec3(-offset[1], -offset[2], -offset[3]))
    IN  [self EXCEPT !.rotation_matrix =
            MatMul(MatMul(translate_post, rotate), translate_pre)]

\* AdvanceCamera.__init__
Adv_init(viewport, projection, zoom, rotation, anchor) ==
    Adv_set_rotation_matrix(Adv_set_view_matrix(Adv_set_projection_matrix(
        [cls               |-> "AdvanceCamera",
         position          |-> Vec2(0, 0),
         goal_position     |-> Vec2(0, 0),
         move_speed        |-> One,
         moving            |-> FALSE,
         zoom              |-> zoom,
         rotation          |-> rotation,
         anchor            |-> anchor,
         near              |-> -One,
         far               |-> One,
         shake_velocity    |-> Vec2(0, 0),
         shake_offset      |-> Vec2(0, 0),
         shake_speed       |-> 0,
         shake_damping     |-> 0,
         shaking           |-> FALSE,
         viewport          |-> IF viewport = None THEN DefaultViewport ELSE viewport,
         projection        |-> IF projection = None THEN DefaultProjection ELSE projection,
         projection_matrix |-> Mat4,
         view_matrix       |-> Mat4,
         combined_matrix   |-> Mat4,
         rotation_matrix   |-> Mat4],
        FALSE)))

\* AdvanceCamera.viewport (setter)
Adv_viewport(self, viewport) ==
    Adv_set_rotation_matrix(Adv_set_view_matrix(
        [self EXCEPT !.viewport = IF viewport = None THEN DefaultViewport ELSE viewport]))

\* AdvanceCamera.projection (setter)
Adv_projection(self, new_projection) ==
    Adv_set_projection_matrix(
        [self EXCEPT !.projection = IF new_projection = None THEN DefaultProjection
                                    ELSE new_projection],
        TRUE)

\* The zoom setter without its call of _set_view_matrix.
Adv_zoom_projection_only(self, zoom) ==
    Adv_set_projection_matrix([self EXCEPT !.zoom = zoom], FALSE)

\* AdvanceCamera.zoom (setter)
Adv_zoom(self, zoom) ==
    Adv_set_view_matrix(Adv_set_projection_matrix([self EXCEPT !.zoom = zoom], FALSE))

\* AdvanceCamera.near (setter)
Adv_near(self, near) == Adv_set_projection_matrix([self EXCEPT !.near = near], TRUE)

\* AdvanceCamera.far (setter)
Adv_far(self, far) == Adv_set_projection_matrix([self EXCEPT !.far = far], TRUE)

\* AdvanceCamera.rotation (setter)
Adv_rotation(self, value) == Adv_set_rotation_matrix([self EXCEPT !.rotation = value])

\* AdvanceCamera.anchor (setter)
Adv_anchor(self, anchor) ==
    Adv_set_rotation_matrix(
        [self EXCEPT !.anchor = IF anchor = None THEN None ELSE <<anchor[1], anchor[2]>>])

\* "if self.moving" clearing the flag without comparing position and goal.
Adv_update_moving_once(self) ==
    IF self.moving
    THEN [self EXCEPT !.position = lerp(self.position, self.goal_position, self.move_speed),
                      !.moving = FALSE]
    ELSE self

\* AdvanceCamera.update: "if self.moving".
Adv_update_moving(self) ==
    IF self.moving
    THEN LET position == lerp(self.position, self.goal_position, self.move_speed)
         IN  [self EXCEPT !.position = position,
                          !.moving = IF position = self.goal_position
                                     THEN FALSE ELSE self.moving]
    ELSE self

\* "if self.shaking" entered whatever the flag says.
Adv_update_shaking_always(self) ==
    LET offset1 == VecAdd(self.shake_offset, self.shake_velocity)
        vx == self.shake_velocity[1]
        vy == self.shake_velocity[2]
        ox == offset1[1]
        oy == offset1[2]
        distance == Hypot(ox, oy)
        velocity_mag == Hypot(vx, vy)
        reverse_speed == Min(self.shake_speed, distance)
        opposite_vector ==
            Vec2(FMul(SinOpposite(ox, oy, distance), reverse_speed),
                 FMul(CosOpposite(ox, oy, distance), reverse_speed))
        done == velocity_mag < self.shake_speed /\ distance < self.shake_speed
        velocity1 == IF done THEN Vec2(0, 0) ELSE self.shake_velocity
    IN  [self EXCEPT !.shake_offset = IF done THEN Vec2(0, 0) ELSE offset1,
                     !.shaking = IF done THEN FALSE ELSE self.shaking,
                     !.shake_velocity =
                         VecMul(VecAdd(velocity1, opposite_vector),
                                Vec2(self.shake_damping, self.shake_damping))]

\* AdvanceCamera.update: "if self.shaking".
Adv_update_shaking(self) ==
    IF self.shaking
    THEN LET offset1 == VecAdd(self.shake_offset, self.shake_velocity)
             vx == self.shake_velocity[1]
             vy == self.shake_velocity[2]
             ox == offset1[1]
             oy == offset1[2]
             distance == Hypot(ox, oy)
             velocity_mag == Hypot(vx, vy)
             reverse_speed == Min(self.shake_speed, distance)
             opposite_vector ==
                 Vec2(FMul(SinOpposite(ox, oy, distance), reverse_speed),
                      FMul(CosOpposite(ox, oy, distance), reverse_speed))
             done == velocity_mag < self.shake_speed /\ distance < self.shake_speed
             velocity1 == IF done THEN Vec2(0, 0) ELSE self.shake_velocity
         IN  [self EXCEPT !.shake_offset = IF done THEN Vec2(0, 0) ELSE offset1,
                          !.shaking = IF done THEN FALSE ELSE self.shaking,
                          !.shake_velocity =
                              VecMul(VecAdd(velocity1, opposite_vector),
                                     Vec2(self.shake_damping, self.shake_damping))]
    ELSE self

\* AdvanceCamera.update
Adv_update(self) ==
    LET s2 == Adv_update_shaking(Adv_update_moving(self))
    IN  IF s2.moving \/ s2.shaking THEN Adv_set_view_matrix(s2) ELSE s2

\* AdvanceCamera.resize
Adv_resize(self, viewport_width, viewport_height) ==
    Adv_viewport(self, <<self.viewport[1], self.viewport[2], viewport_width, viewport_height>>)

\* shake with the velocity assigned, not added.
Adv_shake_assigning(self, velocity, speed, damping) ==
    [self EXCEPT !.shake_velocity = velocity,
                 !.shake_speed = speed,
                 !.shake_damping = damping,
                 !.shaking = TRUE]

\* AdvanceCamera.shake
Adv_shake(self, velocity, speed, damping) ==
    [self EXCEPT !.shake_velocity = VecAdd(self.shake_velocity, velocity),
                 !.shake_speed = speed,
                 !.shake_damping = damping,
                 !.shaking = TRUE]

\* AdvanceCamera.move_to
Adv_move_to(self, vector, speed) ==
    [self EXCEPT !.goal_position = Vec2(vector[1], vector[2]),
                 !.move_speed = speed,
                 !.moving = TRUE]

\* AdvanceCamera.move
Adv_move(self, vector) == Adv_move_to(self, vector, One)

\* AdvanceCamera.center
Adv_center(self, vector, speed) ==
    LET position == self.position
        center == Vec2(FDiv(self.viewport[3], Two), FDiv(self.viewport[4], Two))
        target == VecSub(VecAdd(vector, position), center)
    IN  Adv_move_to(self, target, speed)

\* AdvanceCamera.use: the camera after the call.
Adv_use(self) == Adv_update(self)

\* AdvanceCamera.use: the window after the call by camera c, now in state self.
Adv_use_window(c, self) ==
    [window EXCEPT !.current_camera = c,
                   !.viewport = self.viewport,
                   !.projection_2d_matrix = self.combined_matrix,
                   !.view_matrix_2d = self.rotation_matrix]

\* ----------------------------------------------------------------- inputs

Half == F(1, 2)

\* A viewport and a projection other than the window's, and a viewport of
\* negative width, which the setter ought to refuse.
Viewports == {<<One, 0, F(2, 1), F(4, 1)>>, <<0, 0, -Two, F(4, 1)>>}

Projections == {<<0, F(8, 1), -One, F(3, 1)>>}

\* The sizes resize() is called with; the second has a negative height.
Sizes == {<<F(6, 1), F(4, 1)>>, <<F(6, 1), -Two>>}

\* Goals of a movement.  The second is far from the first on the x axis.
Vectors == {Vec2(F(1, 4), One), Vec2(F(17, 2), 0)}

\* move_to(vector, speed)
MoveTos == {<<Vec2(F(1, 4), One), Half>>, <<Vec2(F(17, 2), 0), One>>}

\* center(vector, speed)
Centers == {<<Vec2(F(3, 1), Two), One>>}

\* The second is a zoom the setter ought to refuse.
Zooms == {Two, -Two}

Nears == {-Two}

Fars == {F(3, 1)}

\* Rotations, in quarter turns.
Rotations == {1, 2}

Anchors == {Vec2(One, Two)}

\* shake(velocity, speed, damping)
Velocities == {Vec2(Two, 0)}

ShakeSpeeds == {F(3, 2)}

Dampings == {F(3, 4)}

Classes == {"BaseCamera", "Camera", "AdvanceCamera"}

\* The camera a program constructs with the default arguments.
New(cls) ==
    CASE cls = "BaseCamera" -> Base_init(None, None)
      [] cls = "Camera" -> Cam_init(0, 0)
      [] cls = "AdvanceCamera" -> Adv_init(None, None, One, 0, None)

\* ---------------------------------------------------------------- actions

Is(c, cls) == cameras[c].cls = cls

\* A call of a method other than update() and use() on camera c.
Call(c, self, name, args) ==
    /\ calls < MaxCalls
    /\ cameras' = [cameras EXCEPT ![c] = self]
    /\ last' = [op |-> name, args |-> args]
    /\ calls' = calls + 1
    /\ UNCHANGED window

\* update() on camera c.
Updated(c, self) ==
    /\ cameras' = [cameras EXCEPT ![c] = self]
    /\ last' = [op |-> "update", args |-> <<>>]
    /\ UNCHANGED <<window, calls>>

\* use() on camera c.
Used(c, self, win) ==
    /\ cameras' = [cameras EXCEPT ![c] = self]
    /\ window' = win
    /\ last' = [op |-> "use", args |-> <<c>>]
    /\ UNCHANGED calls

BaseViewport(c) ==
    /\ Is(c, "BaseCamera")
    /\ \E v \in Viewports :
           Call(c, Base_viewport(cameras[c], v), "viewport", <<v>>)

BaseProjection(c) ==
    /\ Is(c, "BaseCamera")
    /\ \E p \in Projections :
           Call(c, Base_projection(cameras[c], p), "projection", <<p>>)

BaseMoveTo(c) ==
    /\ Is(c, "BaseCamera")
    /\ \E m \in MoveTos :
           Call(c, Base_move_to(cameras[c], m[1], m[2]), "move_to", <<m[1], m[2]>>)

BaseMove(c) ==
    /\ Is(c, "BaseCamera")
    /\ \E v \in Vectors : Call(c, Base_move(cameras[c], v), "move", <<v>>)

BaseUpdate(c) ==
    /\ Is(c, "BaseCamera")
    /\ Updated(c, Base_update(cameras[c]))

BaseUse(c) ==
    /\ Is(c, "BaseCamera")
    /\ LET self == Base_use(cameras[c]) IN Used(c, self, Base_use_window(c, self))

CamRotation(c) ==
    /\ Is(c, "Camera")
    /\ \E r \in Rotations : Call(c, Cam_rotation(cameras[c], r), "rotation", <<r>>)

CamAnchor(c) ==
    /\ Is(c, "Camera")
    /\ \E a \in Anchors : Call(c, Cam_anchor(cameras[c], a), "anchor", <<a>>)

CamResize(c) ==
    /\ Is(c, "Camera")
    /\ \E wh \in Sizes : Call(c, Cam_resize(cameras[c], wh[1], wh[2]), "resize", <<wh[1], wh[2]>>)

CamShake(c) ==
    /\ Is(c, "Camera")
    /\ \E v \in Velocities, s \in ShakeSpeeds, d \in Dampings :
           Call(c, Cam_shake(cameras[c], v, s, d), "shake", <<v, s, d>>)

CamMoveTo(c) ==
    /\ Is(c, "Camera")
    /\ \E m \in MoveTos :
           Call(c, Cam_move_to(cameras[c], m[1], m[2]), "move_to", <<m[1], m[2]>>)

CamMove(c) ==
    /\ Is(c, "Camera")
    /\ \E v \in Vectors : Call(c, Cam_move(cameras[c], v), "move", <<v>>)

CamUpdate(c) ==
    /\ Is(c, "Camera")
    /\ Updated(c, Cam_update(cameras[c]))

CamUse(c) ==
    /\ Is(c, "Camera")
    /\ LET self == Cam_use(cameras[c]) IN Used(c, self, Cam_use_window(c, self))

AdvViewport(c) ==
    /\ Is(c, "AdvanceCamera")
    /\ \E v \in Viewports \cup {None} :
           Call(c, Adv_viewport(cameras[c], v), "viewport", <<v>>)

AdvProjection(c) ==
    /\ Is(c, "AdvanceCamera")
    /\ \E p \in Projections : Call(c, Adv_projection(cameras[c], p), "projection", <<p>>)

AdvZoom(c) ==
    /\ Is(c, "AdvanceCamera")
    /\ \E z \in Zooms : Call(c, Adv_zoom(cameras[c], z), "zoom", <<z>>)

AdvNear(c) ==
    /\ Is(c, "AdvanceCamera")
    /\ \E n \in Nears : Call(c, Adv_near(cameras[c], n), "near", <<n>>)

AdvFar(c) ==
    /\ Is(c, "AdvanceCamera")
    /\ \E f \in Fars : Call(c, Adv_far(cameras[c], f), "far", <<f>>)

AdvRotation(c) ==
    /\ Is(c, "AdvanceCamera")
    /\ \E r \in Rotations : Call(c, Adv_rotation(cameras[c], r), "rotation", <<r>>)

AdvAnchor(c) ==
    /\ Is(c, "AdvanceCamera")
    /\ \E a \in Anchors : Call(c, Adv_anchor(cameras[c], a), "anchor", <<a>>)

AdvResize(c) ==
    /\ Is(c, "AdvanceCamera")
    /\ \E wh \in Sizes : Call(c, Adv_resize(cameras[c], wh[1], wh[2]), "resize", <<wh[1], wh[2]>>)

AdvShake(c) ==
    /\ Is(c, "AdvanceCamera")
    /\ \E v \in Velocities, s \in ShakeSpeeds, d \in Dampings :
           Call(c, Adv_shake(cameras[c], v, s, d), "shake", <<v, s, d>>)

AdvMoveTo(c) ==
    /\ Is(c, "AdvanceCamera")
    /\ \E m \in MoveTos :
           Call(c, Adv_move_to(cameras[c], m[1], m[2]), "move_to", <<m[1], m[2]>>)

AdvMove(c) ==
    /\ Is(c, "AdvanceCamera")
    /\ \E v \in Vectors : Call(c, Adv_move(cameras[c], v), "move", <<v>>)

AdvCenter(c) ==
    /\ Is(c, "AdvanceCamera")
    /\ \E m \in Centers :
           Call(c, Adv_center(cameras[c], m[1], m[2]), "center", <<m[1], m[2]>>)

AdvUpdate(c) ==
    /\ Is(c, "AdvanceCamera")
    /\ Updated(c, Adv_update(cameras[c]))

AdvUse(c) ==
    /\ Is(c, "AdvanceCamera")
    /\ LET self == Adv_use(cameras[c]) IN Used(c, self, Adv_use_window(c, self))

\* ---------------------------------------------------------- specification

Init ==
    /\ \E cls \in Classes : cameras = <<New(cls)>>
    /\ window = [current_camera |-> 0,
                 viewport |-> DefaultViewport,
                 projection_2d_matrix |-> Mat4,
                 view_matrix_2d |-> Mat4]
    /\ last = [op |-> "__init__", args |-> <<>>]
    /\ calls = 0

Next ==
    \E c \in DOMAIN cameras :
        \/ BaseViewport(c)
        \/ BaseProjection(c)
        \/ BaseMoveTo(c)
        \/ BaseMove(c)
        \/ BaseUpdate(c)
        \/ BaseUse(c)
        \/ CamRotation(c)
        \/ CamAnchor(c)
        \/ CamResize(c)
        \/ CamShake(c)
        \/ CamMoveTo(c)
        \/ CamMove(c)
        \/ CamUpdate(c)
        \/ CamUse(c)
        \/ AdvViewport(c)
        \/ AdvProjection(c)
        \/ AdvZoom(c)
        \/ AdvNear(c)
        \/ AdvFar(c)
        \/ AdvRotation(c)
        \/ AdvAnchor(c)
        \/ AdvResize(c)
        \/ AdvShake(c)
        \/ AdvMoveTo(c)
        \/ AdvMove(c)
        \/ AdvCenter(c)
        \/ AdvUpdate(c)
        \/ AdvUse(c)

Spec == Init /\ [][Next]_vars

\* The pairs of different classes, each pair in one order.
ClassPairs ==
    {<<"BaseCamera", "Camera">>, <<"BaseCamera", "AdvanceCamera">>,
     <<"Camera", "AdvanceCamera">>}

\* Two cameras of different classes constructed on one window.
InitShared ==
    /\ \E p \in ClassPairs : cameras = <<New(p[1]), New(p[2])>>
    /\ window = [current_camera |-> 0,
                 viewport |-> DefaultViewport,
                 projection_2d_matrix |-> Mat4,
                 view_matrix_2d |-> Mat4]
    /\ last = [op |-> "__init__", args |-> <<>>]
    /\ calls = 0

SpecShared == InitShared /\ [][Next]_vars

\* ------------------------------------------------------------- properties

Cams == DOMAIN cameras

\* The classes that keep a moving flag.
Flagged(c) == cameras[c].cls \in {"BaseCamera", "AdvanceCamera"}

\* The step is an update() or a use().
Updates == last'.op \in {"update", "use"}

\* The square of the distance between two positions, in ticks; exact.
DistSq(a, b) == (a[1] - b[1]) * (a[1] - b[1]) + (a[2] - b[2]) * (a[2] - b[2])

\* Half the viewport of an AdvanceCamera.
HalfViewport(self) == Vec2(FDiv(self.viewport[3], Two), FDiv(self.viewport[4], Two))

\* move and move_to of the class of self.
move(self, v) ==
    CASE self.cls = "BaseCamera" -> Base_move(self, v)
      [] self.cls = "Camera" -> Cam_move(self, v)
      [] self.cls = "AdvanceCamera" -> Adv_move(self, v)

move_to(self, v, speed) ==
    CASE self.cls = "BaseCamera" -> Base_move_to(self, v, speed)
      [] self.cls = "Camera" -> Cam_move_to(self, v, speed)
      [] self.cls = "AdvanceCamera" -> Adv_move_to(self, v, speed)

\* C1: for BaseCamera and AdvanceCamera, after the constructor and after
\* every public method and setter, combined_matrix is exactly
\* projection_matrix @ view_matrix.
C1_CombinedIsProduct ==
    \A c \in Cams :
        Flagged(c) =>
            cameras[c].combined_matrix =
                MatMul(cameras[c].projection_matrix, cameras[c].view_matrix)

\* An AdvanceCamera away from the origin whose zoom was just set.
C1_Witness ==
    \E c \in Cams :
        /\ Is(c, "AdvanceCamera")
        /\ last.op = "zoom"
        /\ cameras[c].position # Vec2(0, 0)
        /\ cameras[c].combined_matrix # Mat4

\* C2: whenever use() of an AdvanceCamera returns, the combined matrix it
\* published is the one built from the view matrix of the camera's current
\* position and shake_offset, with its current zoom and viewport; the frame
\* in which the goal is reached or the shake ends is no exception.
C2_UsePublishesCurrentView ==
    \A c \in Cams :
        (Is(c, "AdvanceCamera") /\ last.op = "use" /\ window.current_camera = c) =>
            window.projection_2d_matrix =
                Adv_set_view_matrix(cameras[c]).combined_matrix

\* C3: for BaseCamera and AdvanceCamera, moving == false implies
\* position == goal_position.
C3_SettledAtGoal ==
    \A c \in Cams :
        (Flagged(c) /\ ~cameras[c].moving) =>
            cameras[c].position = cameras[c].goal_position

\* A camera that an update() brought to a goal away from the origin.
C3_Witness ==
    \E c \in Cams :
        /\ Flagged(c)
        /\ ~cameras[c].moving
        /\ last.op \in {"update", "use"}
        /\ cameras[c].position # Vec2(0, 0)

\* C4: for AdvanceCamera, shaking == false implies shake_velocity == (0, 0)
\* and shake_offset == (0, 0).
C4_AtRestWhenNotShaking ==
    \A c \in Cams :
        (Is(c, "AdvanceCamera") /\ ~cameras[c].shaking) =>
            /\ cameras[c].shake_velocity = Vec2(0, 0)
            /\ cameras[c].shake_offset = Vec2(0, 0)

\* C5: for an AdvanceCamera with anchor None, the rotation matrix is the one
\* built around position + (viewport_width/2, viewport_height/2), and maps
\* that point to itself.
C5_DefaultAnchorFollowsPosition ==
    \A c \in Cams :
        (Is(c, "AdvanceCamera") /\ cameras[c].anchor = None) =>
            LET centre == VecAdd(cameras[c].position, HalfViewport(cameras[c]))
            IN  /\ cameras[c].rotation_matrix =
                       Adv_set_rotation_matrix(cameras[c]).rotation_matrix
                /\ Transform(cameras[c].rotation_matrix, centre) = centre

\* C6: with an explicit anchor P, the rotation matrix an AdvanceCamera
\* stores, and the one a Camera's use() publishes, maps P to itself.
C6_AnchorIsFixedPoint ==
    \A c \in Cams :
        /\ (Is(c, "AdvanceCamera") /\ cameras[c].anchor # None) =>
               Transform(cameras[c].rotation_matrix, cameras[c].anchor) =
                   cameras[c].anchor
        /\ (/\ Is(c, "Camera")
            /\ cameras[c].anchor # None
            /\ last.op = "use"
            /\ window.current_camera = c) =>
               Transform(window.view_matrix_2d, cameras[c].anchor) =
                   cameras[c].anchor

\* An AdvanceCamera turned by a quarter about an explicit anchor.
C6_Witness ==
    \E c \in Cams :
        /\ Is(c, "AdvanceCamera")
        /\ cameras[c].anchor # None
        /\ cameras[c].rotation = 1
        /\ cameras[c].rotation_matrix # Mat4

\* C7: move(v) is move_to(v, 1.0), and with a move speed of 1.0 the first
\* update() after the call leaves position == v and moving == false.
C7_MoveIsInstant ==
    [][\A c \in Cams :
          /\ \A v \in Vectors : move(cameras[c], v) = move_to(cameras[c], v, One)
          /\ (/\ \/ last.op = "move"
                 \/ last.op = "move_to" /\ last.args[2] = One
              /\ Updates)
             => /\ cameras'[c].position = last.args[1]
                /\ Flagged(c) => ~cameras'[c].moving]_vars

\* C8: while a BaseCamera or AdvanceCamera is moving towards a goal it has
\* not reached, with 0 < move_speed <= 1, every update() strictly decreases
\* the distance between position and goal.
C8_UpdateApproachesGoal ==
    [][\A c \in Cams :
          (/\ Flagged(c)
           /\ cameras[c].moving
           /\ cameras[c].position # cameras[c].goal_position
           /\ Updates)
          => DistSq(cameras'[c].position, cameras[c].goal_position)
                 < DistSq(cameras[c].position, cameras[c].goal_position)]_vars

\* C9: the update() that ends a shake of an AdvanceCamera leaves
\* shake_velocity == (0, 0) and shake_offset == (0, 0), and later updates
\* without a shake() call leave them there.
C9_ShakeEndsSettled ==
    [][\A c \in Cams :
          (Is(c, "AdvanceCamera") /\ Updates /\ ~cameras'[c].shaking)
          => /\ cameras'[c].shake_velocity = Vec2(0, 0)
             /\ cameras'[c].shake_offset = Vec2(0, 0)]_vars

\* C10: after center(P, 1.0) and one update() of an AdvanceCamera,
\* position + (viewport_width/2, viewport_height/2) == P; and center(P)
\* called when that already holds sets the goal to the current position.
C10_CenterCentres ==
    [][\A c \in Cams :
          /\ (/\ Is(c, "AdvanceCamera")
              /\ last.op = "center"
              /\ last.args[2] = One
              /\ Updates)
             => VecAdd(cameras'[c].position, HalfViewport(cameras'[c])) = last.args[1]
          /\ (/\ Is(c, "AdvanceCamera")
              /\ last'.op = "center"
              /\ VecAdd(cameras[c].position, HalfViewport(cameras[c])) = last'.args[1])
             => cameras'[c].goal_position = cameras[c].position]_vars

\* C11: resize(w2, h2) sets the viewport's width and height to w2 and h2,
\* leaves its left and bottom alone, and rebuilds the projection matrix from
\* the new size (times scale, or zoom), which the next use() publishes.
C11_ResizeRebuildsProjection ==
    [][\A c \in Cams :
          last'.op = "resize" =>
              LET w2  == last'.args[1]
                  h2  == last'.args[2]
                  old == cameras[c]
                  new == cameras'[c]
              IN  CASE new.cls = "Camera" ->
                         /\ new.viewport_width = w2
                         /\ new.viewport_height = h2
                         /\ new.projection_matrix =
                                orthogonal_projection(0, FMul(new.scale, w2),
                                                      0, FMul(new.scale, h2),
                                                      new.near, new.far)
                    [] new.cls = "AdvanceCamera" ->
                         /\ new.viewport = <<old.viewport[1], old.viewport[2], w2, h2>>
                         /\ new.projection_matrix =
                                orthogonal_projection(0, FMul(w2, new.zoom),
                                                      0, FMul(h2, new.zoom),
                                                      new.near, new.far)
                    [] OTHER -> TRUE]_vars

\* A camera at its goal with no shake in progress.
Settled(self) ==
    /\ self.position = self.goal_position
    /\ self.cls \in {"BaseCamera", "AdvanceCamera"} => ~self.moving
    /\ self.cls = "AdvanceCamera" => ~self.shaking
    /\ self.cls = "Camera" =>
           self.shake_velocity = Vec2(0, 0) /\ self.shake_offset = Vec2(0, 0)

\* C12: a use() that directly follows a use() of the same settled camera
\* publishes the same viewport, combined matrix and rotation matrix again
\* and leaves the camera's position, shake state and matrices as they were.
C12_UseTwiceIsUseOnce ==
    [][\A c \in Cams :
          (/\ last.op = "use"
           /\ window.current_camera = c
           /\ Settled(cameras[c])
           /\ last'.op = "use")
          => window' = window /\ cameras'[c] = cameras[c]]_vars

\* A settled camera away from the origin whose use() has just returned.
C12_Witness ==
    \E c \in Cams :
        /\ last.op = "use"
        /\ window.current_camera = c
        /\ Settled(cameras[c])
        /\ cameras[c].position # Vec2(0, 0)
        /\ window.projection_2d_matrix = cameras[c].combined_matrix

\* C13: no AdvanceCamera holds a zoom that is zero or negative: the
\* constructor and the zoom setter fail on such a zoom, so no call that
\* returns, use() among them, is made by a camera with zoom <= 0.
C13_ZoomIsPositive ==
    \A c \in Cams : Is(c, "AdvanceCamera") => cameras[c].zoom > 0

\* The width and height of a camera's viewport.
ViewportSize(self) ==
    IF self.cls = "Camera" THEN <<self.viewport_width, self.viewport_height>>
    ELSE <<self.viewport[3], self.viewport[4]>>

\* C14: every camera's viewport has a positive width and a positive height:
\* the constructor, the viewport setter and resize fail on any other size,
\* so no call that returns leaves one behind.
C14_ViewportIsPositive ==
    \A c \in Cams :
        ViewportSize(cameras[c])[1] > 0 /\ ViewportSize(cameras[c])[2] > 0

\* C15: for the Camera class, after the constructor and after every public
\* method returns, combined_matrix is projection_matrix @ view_matrix.
C15_CameraCombinedIsProduct ==
    \A c \in Cams :
        Is(c, "Camera") =>
            /\ cameras[c].view_matrix # None
            /\ cameras[c].combined_matrix # None
            /\ cameras[c].combined_matrix =
                   MatMul(cameras[c].projection_matrix, cameras[c].view_matrix)

\* What use() of a camera in state self is to leave on the render target.
Published(self) ==
    CASE self.cls = "BaseCamera" ->
             [viewport |-> self.viewport,
              projection_2d_matrix |-> self.combined_matrix,
              view_matrix_2d |-> Mat4]
      [] self.cls = "Camera" ->
             [viewport |-> <<0, 0, int(self.viewport_width), int(self.viewport_height)>>,
              projection_2d_matrix |-> self.combined_matrix,
              view_matrix_2d |-> Cam_use_view_matrix_2d(self)]
      [] self.cls = "AdvanceCamera" ->
             [viewport |-> self.viewport,
              projection_2d_matrix |-> self.combined_matrix,
              view_matrix_2d |-> self.rotation_matrix]

\* C16: with several cameras on one window, after each use() the window's
\* current_camera is the camera that was used and the render target's
\* viewport, projection matrix and view matrix are that camera's: nothing an
\* earlier camera published is still in effect.
C16_LastUseWins ==
    \A c \in Cams :
        (last.op = "use" /\ last.args[1] = c) =>
            /\ window.current_camera = c
            /\ window.viewport = Published(cameras[c]).viewport
            /\ window.projection_2d_matrix = Published(cameras[c]).projection_2d_matrix
            /\ window.view_matrix_2d = Published(cameras[c]).view_matrix_2d

\* The matrices _set_projection_matrix, _set_view_matrix and
\* _set_rotation_matrix of the camera's class build from its current fields.
ProjectionOf(self) ==
    IF self.cls = "BaseCamera"
    THEN Base_set_projection_matrix(self, FALSE).projection_matrix
    ELSE Adv_set_projection_matrix(self, FALSE).projection_matrix

ViewOf(self) ==
    IF self.cls = "BaseCamera"
    THEN Base_set_view_matrix(self).view_matrix
    ELSE Adv_set_view_matrix(self).view_matrix

RotationOf(self) == Adv_set_rotation_matrix(self).rotation_matrix

\* C17: for BaseCamera and AdvanceCamera, when a setter has just returned,
\* every cached matrix that depends on the field it changed is the matrix
\* built from the current fields: the view (and rotation) matrix after
\* viewport, the projection matrix after projection, zoom, near and far, the
\* view matrix after zoom, the rotation matrix after rotation and anchor.
C17_SettersRefreshMatrices ==
    \A c \in Cams :
        Flagged(c) =>
            LET self == cameras[c]
            IN  /\ last.op = "viewport" =>
                       /\ self.view_matrix = ViewOf(self)
                       /\ Is(c, "AdvanceCamera") =>
                              self.rotation_matrix = RotationOf(self)
                /\ last.op \in {"projection", "zoom", "near", "far"} =>
                       self.projection_matrix = ProjectionOf(self)
                /\ last.op = "zoom" => self.view_matrix = ViewOf(self)
                /\ last.op \in {"rotation", "anchor"} =>
                       self.rotation_matrix = RotationOf(self)

\* C18: shake(velocity, speed, damping) adds velocity to shake_velocity,
\* so calls with no update() in between sum up; it overwrites shake_speed
\* and shake_damping, leaves position, goal_position and shake_offset
\* alone, and on an AdvanceCamera sets shaking.
C18_ShakeAccumulates ==
    [][\A c \in Cams :
          last'.op = "shake" =>
              LET old == cameras[c]
                  new == cameras'[c]
              IN  /\ new.shake_velocity = VecAdd(old.shake_velocity, last'.args[1])
                  /\ new.shake_speed = last'.args[2]
                  /\ new.shake_damping = last'.args[3]
                  /\ new.position = old.position
                  /\ new.goal_position = old.goal_position
                  /\ new.shake_offset = old.shake_offset
                  /\ new.cls = "AdvanceCamera" => new.shaking]_vars

\* Two shakes in a row: the velocity is the sum of the two impulses.
C18_Witness ==
    \E c \in Cams :
        /\ last.op = "shake"
        /\ calls = 2
        /\ cameras[c].shake_offset = Vec2(0, 0)
        /\ cameras[c].shake_velocity = VecAdd(last.args[1], last.args[1])

=============================================================================
